---- MODULE Spec2Model ----
(***************************************************************************)
(* Model of salomeToOpenFOAM_GUI_FixSelect.py: exportToFoam and the        *)
(* helpers it calls.  One export is a run of the state machine below: the  *)
(* output files are opened, the faces are counted, the face groups are     *)
(* resolved into boundary patches, the cells are walked face by face, the  *)
(* internal faces are reordered and the files are written.                 *)
(*                                                                         *)
(* Python lists are sequences (index i of the code is index i+1 here).     *)
(* Coordinates are integers and the centroid divisions are cleared by      *)
(* cross-multiplication, so the sign tests are those of exact arithmetic.  *)
(***************************************************************************)
EXTENDS Integers, Sequences, FiniteSets, TLC

(***************************************************************************)
(* Bounds of the model.                                                    *)
(***************************************************************************)
MaxGroups == 2      \* face groups declared on the mesh
MaxGroupSize == 2   \* member faces of a group picked among the candidates
MaxLen == 3         \* internal faces of the arrays given to the reorder pass alone
MaxCell == 2        \* largest cell id in those arrays

(***************************************************************************)
(* Program constants.                                                      *)
(***************************************************************************)
debug == 1
verify == TRUE
Labels == <<"patch", "wall", "symmetry", "empty", "wedge", "cyclic">>
FileNames == <<"points", "faces", "owner", "neighbour", "boundary">>

\* __debugPrint__: the messages printed, those of a level debug reaches
DebugPrint(msgs, level) == IF debug >= level THEN msgs ELSE {}

(***************************************************************************)
(* Sequence helpers standing for Python built-ins.                         *)
(***************************************************************************)
Range(s) == {s[i] : i \in DOMAIN s}

Reverse(s) == [i \in 1..Len(s) |-> s[Len(s) + 1 - i]]

\* sorted(fnodes): the ascending arrangement of a list of distinct ints
SortedAsc(s) == SortSeq(s, LAMBDA a, b : a < b)

\* sorted(fnodes, reverse=True)
SortedDesc(s) == SortSeq(s, LAMBDA a, b : a > b)

\* the ascending list of a set of ints (iteration order of a set of small ints)
RECURSIVE SetToSeq(_)
SetToSeq(S) ==
  IF S = {} THEN <<>>
  ELSE LET m == CHOOSE x \in S : \A y \in S : x <= y
       IN <<m>> \o SetToSeq(S \ {m})

\* a list index as Python resolves it: negative indices count from the end
PyIdx(n, i) == IF i < 0 THEN n + i ELSE i

PyIdxOk(n, i) == PyIdx(n, i) >= 0 /\ PyIdx(n, i) < n

\* lst[i] and lst[i] = v for a Python index i that is in range
PyGet(lst, i) == lst[PyIdx(Len(lst), i) + 1]

PySet(lst, i, v) == [lst EXCEPT ![PyIdx(Len(lst), i) + 1] = v]

\* [v] * n : the empty list when n <= 0
PyRepeat(v, n) == [i \in 1..(IF n > 0 THEN n ELSE 0) |-> v]

(***************************************************************************)
(* MeshBuffer.Key and MeshBuffer.ReverseKey.                               *)
(***************************************************************************)
Key(fnodes) == SortedAsc(fnodes)

ReverseKey(fnodes, isTuple) ==
  IF isTuple THEN Reverse(fnodes) ELSE SortedDesc(fnodes)

(***************************************************************************)
(* Geometry kernel.                                                        *)
(***************************************************************************)
Diff(u, v) == <<u[1] - v[1], u[2] - v[2], u[3] - v[3]>>

DotProd(u, v) == u[1] * v[1] + u[2] * v[2] + u[3] * v[3]

CrossProd(u, v) ==
  << u[2] * v[3] - u[3] * v[2],
     u[3] * v[1] - u[1] * v[3],
     u[1] * v[2] - u[2] * v[1] >>

Scale(k, u) == <<k * u[1], k * u[2], k * u[3]>>

\* the coordinate sum of __cog__, before its division by len(nodes)
RECURSIVE CogSum(_, _)
CogSum(xyz, nodes) ==
  IF nodes = <<>> THEN <<0, 0, 0>>
  ELSE LET p == xyz[Head(nodes)]
           r == CogSum(xyz, Tail(nodes))
       IN <<p[1] + r[1], p[2] + r[2], p[3] + r[3]>>

\* first-to-second cross first-to-last
CalcNormal(xyz, nodes) ==
  CrossProd(Diff(xyz[nodes[2]], xyz[nodes[1]]),
            Diff(xyz[nodes[Len(nodes)]], xyz[nodes[1]]))

\* fn . (vc - fc), multiplied by len(vnodes) * len(fnodes) > 0
OrderDot(xyz, vnodes, fnodes) ==
  DotProd(CalcNormal(xyz, fnodes),
          Diff(Scale(Len(fnodes), CogSum(xyz, vnodes)),
               Scale(Len(vnodes), CogSum(xyz, fnodes))))

VerifyFaceOrderFlipped(xyz, vnodes, fnodes) == ~(OrderDot(xyz, vnodes, fnodes) < 0)

VerifyFaceOrder(xyz, vnodes, fnodes) == ~(OrderDot(xyz, vnodes, fnodes) > 0)

(***************************************************************************)
(* The meshes the host platform hands to the export.  A mesh is its node   *)
(* coordinates (GetNodeXYZ), its volumes in host order with their node     *)
(* lists (GetElemNodes) and face node lists (GetElemFaceNodes), and its    *)
(* face elements (GetElemNodes of a face id).  cand are the face ids the   *)
(* declared groups of the model pick their members from.                   *)
(***************************************************************************)
\* two tetrahedra sharing the triangle {1,2,3}
TwoTets ==
  [ xyz   |-> << <<0,0,0>>, <<2,0,0>>, <<0,2,0>>, <<0,0,2>>, <<0,0,-2>> >>,
    cells |-> << [v |-> 101, nodes |-> <<1,2,3,4>>,
                  faces |-> << <<1,3,2>>, <<1,2,4>>, <<1,4,3>>, <<2,3,4>> >>],
                 [v |-> 102, nodes |-> <<1,2,3,5>>,
                  faces |-> << <<1,2,3>>, <<1,5,2>>, <<1,3,5>>, <<2,5,3>> >>] >>,
    faceElems |-> << <<1,2,3>>, <<1,2,4>>, <<1,4,3>>, <<2,3,4>>,
                     <<1,5,2>>, <<1,3,5>>, <<2,5,3>> >>,
    cand  |-> {1, 5} ]

\* a tetrahedron with a neighbour on {1,2,4} and one on {1,2,3}; the host
\* reports the first cell's face {1,2,4} wound inward
ThreeTets ==
  [ xyz   |-> << <<0,0,0>>, <<2,0,0>>, <<0,2,0>>, <<0,0,2>>, <<0,0,-2>>,
                 <<0,-2,0>> >>,
    cells |-> << [v |-> 101, nodes |-> <<1,2,3,4>>,
                  faces |-> << <<1,4,2>>, <<1,3,2>>, <<1,4,3>>, <<2,3,4>> >>],
                 [v |-> 102, nodes |-> <<1,2,3,5>>,
                  faces |-> << <<1,2,3>>, <<1,5,2>>, <<1,3,5>>, <<2,5,3>> >>],
                 [v |-> 103, nodes |-> <<1,2,4,6>>,
                  faces |-> << <<1,4,2>>, <<1,2,6>>, <<1,6,4>>, <<2,4,6>> >>] >>,
    faceElems |-> << <<1,2,3>>, <<1,4,3>>, <<2,3,4>>, <<1,2,4>>,
                     <<1,5,2>>, <<1,3,5>>, <<2,5,3>>,
                     <<1,2,6>>, <<1,6,4>>, <<2,4,6>> >>,
    cand  |-> {1, 5} ]

\* two pyramids on either side of a planar quadrilateral {1,2,3,4} that is
\* not convex: node 1 is its reflex vertex
TwoPyramids ==
  [ xyz   |-> << <<2,1,0>>, <<4,0,0>>, <<2,4,0>>, <<0,0,0>>, <<2,2,-3>>,
                 <<2,2,3>> >>,
    cells |-> << [v |-> 101, nodes |-> <<1,2,3,4,5>>,
                  faces |-> << <<1,2,3,4>>, <<1,5,2>>, <<2,5,3>>, <<3,5,4>>,
                               <<4,5,1>> >>],
                 [v |-> 102, nodes |-> <<1,2,3,4,6>>,
                  faces |-> << <<4,3,2,1>>, <<1,2,6>>, <<2,3,6>>, <<3,4,6>>,
                               <<4,1,6>> >>] >>,
    faceElems |-> << <<1,2,3,4>>, <<1,5,2>>, <<2,5,3>>, <<3,5,4>>, <<4,5,1>>,
                     <<1,2,6>>, <<2,3,6>>, <<3,4,6>>, <<4,1,6>> >>,
    cand  |-> {1, 6} ]

Meshes == <<TwoTets, ThreeTets, TwoPyramids>>

(***************************************************************************)
(* State of one export.                                                    *)
(***************************************************************************)
VARIABLES
  meshId,               \* the mesh being exported (index into Meshes)
  groups,               \* mesh.GetGroups(): records [name, type, ids]
  py3,                  \* sys.version_info.major > 2
  bound,                \* the boundary-type combo boxes of the dialog
  pc, err,              \* position in exportToFoam; the exception that ended it
  files,                \* the output files: [st, data]
  log,                  \* diagnostics printed
  hostCreated,          \* face groups created on the host mesh
  gi,                   \* position in the loop over mesh.GetGroups()
  nrFaces, nrIntFaces, nrBCfaces, nrExtFacesInGroups, ofbcfid,
  grpStartFace, grpNrFaces, grpNames,
  bcFaces, bcFacesSorted,
  faces, facesSorted, owner, neighbour,
  offid, ofvid, fi

vars == << meshId, groups, py3, bound, pc, err, files, log, hostCreated, gi,
           nrFaces, nrIntFaces, nrBCfaces, nrExtFacesInGroups, ofbcfid,
           grpStartFace, grpNrFaces, grpNames, bcFaces, bcFacesSorted,
           faces, facesSorted, owner, neighbour, offid, ofvid, fi >>

inputVars == << meshId, groups, py3, bound >>

resolverVars == << gi, nrFaces, nrIntFaces, nrBCfaces, nrExtFacesInGroups,
                   ofbcfid, grpStartFace, grpNrFaces, grpNames, bcFaces,
                   bcFacesSorted >>

cellVars == << faces, facesSorted, owner, neighbour, offid, ofvid, fi >>

Mesh == Meshes[meshId]

volumes == Mesh.cells

\* mesh.GetElemNodes(sfid) of a face element
GetElemNodes(sfid) == Mesh.faceElems[sfid]

\* MeshBuffer.__init__: the faces of a volume, their keys and their number
BufferKeys(m, c) == [k \in 1..Len(m.cells[c].faces) |-> Key(m.cells[c].faces[k])]

BufferFL(m, c) == Len(m.cells[c].faces)

\* the FT_FreeFaces filter: the face elements lying on fewer than two volumes
ExtFacesOf(m) ==
  { f \in 1..Len(m.faceElems) :
      Cardinality({ c \in 1..Len(m.cells) :
                      \E k \in 1..BufferFL(m, c) :
                        BufferKeys(m, c)[k] = Key(m.faceElems[f]) }) < 2 }

extFaces == ExtFacesOf(Mesh)

nrExtFaces == Cardinality(extFaces)

(***************************************************************************)
(* The inputs of an export.                                                *)
(***************************************************************************)
\* the member sets a declared face group may have
GroupSets(m) ==
  { S \in SUBSET m.cand : Cardinality(S) <= MaxGroupSize }
    \cup { ExtFacesOf(m), ExtFacesOf(m) \ m.cand }

\* group names are <<base, k>>: base alone when k = 0, else "base_k"
GroupName(scheme, i) ==
  IF scheme = 1 THEN <<"grp", i>> ELSE <<"defaultPatches", i - 1>>

FaceGroupLists(m, scheme) ==
  UNION { { [i \in 1..n |-> [name |-> GroupName(scheme, i), type |-> "FACE",
                             ids |-> SetToSeq(ss[i])]] :
              ss \in [1..n -> GroupSets(m)] } : n \in 0..MaxGroups }

VolumeGroup(m) ==
  [name |-> <<"zone", 0>>, type |-> "VOLUME",
   ids |-> [c \in 1..Len(m.cells) |-> m.cells[c].v]]

\* showMainDialog: one combo box per group of the mesh
DialogBound(gs) == [i \in 1..Len(gs) |-> Labels[((i - 1) % Len(Labels)) + 1]]

AllFiles == Range(FileNames) \cup {"cellZones"}

ClosedFiles == [f \in AllFiles |-> [st |-> "absent", data |-> <<>>]]

Init ==
  /\ meshId \in 1..Len(Meshes)
  /\ py3 \in BOOLEAN
  /\ \E scheme \in 1..2, withZone \in BOOLEAN :
       \E fg \in FaceGroupLists(Meshes[meshId], scheme) :
         groups = IF withZone THEN <<VolumeGroup(Meshes[meshId])>> \o fg ELSE fg
  /\ bound = DialogBound(groups)
  /\ pc = "open"
  /\ err = "none"
  /\ files = ClosedFiles
  /\ log = {}
  /\ hostCreated = <<>>
  /\ gi = 1
  /\ nrFaces = 0 /\ nrIntFaces = 0 /\ nrBCfaces = 0
  /\ nrExtFacesInGroups = 0 /\ ofbcfid = 0
  /\ grpStartFace = <<>> /\ grpNrFaces = <<>> /\ grpNames = <<>>
  /\ bcFaces = <<>> /\ bcFacesSorted = <<>>
  /\ faces = <<>> /\ facesSorted = <<>>
  /\ owner = <<>> /\ neighbour = <<>>
  /\ offid = 0 /\ ofvid = 0 /\ fi = 0

(***************************************************************************)
(* exportToFoam, lines 137-147: the five files are opened for writing      *)
(* before anything is computed.                                            *)
(***************************************************************************)
OpenFiles ==
  /\ pc = "open"
  /\ files' = [f \in AllFiles |->
                 IF f \in Range(FileNames) THEN [st |-> "open", data |-> <<>>]
                 ELSE files[f]]
  /\ pc' = "count"
  /\ UNCHANGED << inputVars, err, log, hostCreated, resolverVars, cellVars >>

\* the k-th open fails: the files before it stay created, the export returns
OpenFails ==
  /\ pc = "open"
  /\ \E k \in 1..Len(FileNames) :
       files' = [f \in AllFiles |->
                   IF \E j \in 1..(k - 1) : FileNames[j] = f
                   THEN [st |-> "open", data |-> <<>>]
                   ELSE files[f]]
  /\ log' = log \cup {"could not open files aborting"}  \* print, not __debugPrint__
  /\ pc' = "aborted"
  /\ UNCHANGED << inputVars, err, hostCreated, resolverVars, cellVars >>

(***************************************************************************)
(* lines 153-175: the free faces are fetched and the faces counted.        *)
(***************************************************************************)
RECURSIVE SumFL(_, _)
SumFL(m, c) == IF c = 0 THEN 0 ELSE BufferFL(m, c) + SumFL(m, c - 1)

CountFaces ==
  /\ pc = "count"
  /\ nrBCfaces' = nrExtFaces
  /\ nrFaces' = (SumFL(Mesh, Len(volumes)) + nrExtFaces) \div 2
  /\ nrIntFaces' = nrFaces' - nrBCfaces'
  /\ log' = log \cup DebugPrint({"Number of nodes", "Number of cells",
                                 "Counting number of faces",
                                 "total number of faces",
                                 "Converting mesh to OpenFOAM"}, 1)
  /\ pc' = "groups"
  /\ UNCHANGED << inputVars, err, files, hostCreated, gi,
                  nrExtFacesInGroups, ofbcfid, grpStartFace, grpNrFaces,
                  grpNames, bcFaces, bcFacesSorted, cellVars >>

(***************************************************************************)
(* lines 193-233: the boundary-group resolver, one face group per step.    *)
(***************************************************************************)
\* lines 205-215: the faces of a group are registered under their key; a key
\* already registered raises and leaves the tables as they are at that face
RECURSIVE RegisterGroupFacesUnchecked(_, _, _, _)
RegisterGroupFacesUnchecked(ids, lst, tbl, n) ==
  IF ids = <<>>
  THEN [ok |-> TRUE, bcFaces |-> lst, bcFacesSorted |-> tbl, ofbcfid |-> n]
  ELSE LET fnodes == GetElemNodes(Head(ids))
           key == Key(fnodes)
       IN RegisterGroupFacesUnchecked(Tail(ids), Append(lst, fnodes),
                                      (key :> n) @@ tbl, n + 1)

RECURSIVE RegisterGroupFaces(_, _, _, _)
RegisterGroupFaces(ids, lst, tbl, n) ==
  IF ids = <<>>
  THEN [ok |-> TRUE, bcFaces |-> lst, bcFacesSorted |-> tbl, ofbcfid |-> n]
  ELSE LET fnodes == GetElemNodes(Head(ids))
           key == Key(fnodes)
       IN IF key \notin DOMAIN tbl
          THEN RegisterGroupFaces(Tail(ids), Append(lst, fnodes),
                                  (key :> n) @@ tbl, n + 1)
          ELSE [ok |-> FALSE, bcFaces |-> lst, bcFacesSorted |-> tbl,
                ofbcfid |-> n]

\* lines 226-231: the faces of a baffle are registered again, reversed key
RECURSIVE RegisterReversed(_, _, _, _)
RegisterReversed(ids, lst, tbl, n) ==
  IF ids = <<>>
  THEN [bcFaces |-> lst, bcFacesSorted |-> tbl, ofbcfid |-> n]
  ELSE LET fnodes == GetElemNodes(Head(ids))
           key == ReverseKey(fnodes, FALSE)
       IN RegisterReversed(Tail(ids), Append(lst, fnodes),
                           (key :> n) @@ tbl, n + 1)

IsGroupBaffle(ids, ext) == \E i \in 1..Len(ids) : ids[i] \notin ext

ShiftStartsForgotten(starts, nr) == starts

\* line 224: grpStartFace = [x - nr for x in grpStartFace]
ShiftStarts(starts, nr) == [i \in 1..Len(starts) |-> starts[i] - nr]

\* lines 200-202
StartsWith(nr) ==
  IF nr > 0 THEN Append(grpStartFace, nrIntFaces + ofbcfid) ELSE grpStartFace

NrsWith(nr) == IF nr > 0 THEN Append(grpNrFaces, nr) ELSE grpNrFaces

SkipGroup ==
  /\ pc = "groups"
  /\ gi <= Len(groups)
  /\ groups[gi].type # "FACE"
  /\ gi' = gi + 1
  /\ UNCHANGED << inputVars, pc, err, files, log, hostCreated, nrFaces,
                  nrIntFaces, nrBCfaces, nrExtFacesInGroups, ofbcfid,
                  grpStartFace, grpNrFaces, grpNames, bcFaces, bcFacesSorted,
                  cellVars >>

ResolveGroup ==
  /\ pc = "groups"
  /\ gi <= Len(groups)
  /\ groups[gi].type = "FACE"
  /\ LET grIds == groups[gi].ids
         nr == Len(grIds)
         reg == RegisterGroupFaces(grIds, bcFaces, bcFacesSorted, ofbcfid)
         rev == RegisterReversed(grIds, reg.bcFaces, reg.bcFacesSorted,
                                 reg.ofbcfid)
     IN /\ reg.ok
        /\ grpNames' = Append(grpNames, groups[gi].name)
        /\ IF IsGroupBaffle(grIds, extFaces)
           THEN /\ log' = log \cup DebugPrint({"found group"}, 2)
                               \cup DebugPrint({"group is a baffle"}, 1)
                /\ nrBCfaces' = nrBCfaces + nr
                /\ nrFaces' = nrFaces + nr
                /\ nrIntFaces' = nrIntFaces - nr
                /\ grpStartFace' = ShiftStarts(StartsWith(nr), nr)
                /\ grpNrFaces' = PySet(NrsWith(nr), -1, nr * 2)
                /\ bcFaces' = rev.bcFaces
                /\ bcFacesSorted' = rev.bcFacesSorted
                /\ ofbcfid' = rev.ofbcfid
                /\ UNCHANGED nrExtFacesInGroups
           ELSE /\ nrExtFacesInGroups' = nrExtFacesInGroups + nr
                /\ grpStartFace' = StartsWith(nr)
                /\ grpNrFaces' = NrsWith(nr)
                /\ bcFaces' = reg.bcFaces
                /\ bcFacesSorted' = reg.bcFacesSorted
                /\ ofbcfid' = reg.ofbcfid
                /\ log' = log \cup DebugPrint({"found group"}, 2)
                /\ UNCHANGED << nrBCfaces, nrFaces, nrIntFaces >>
  /\ gi' = gi + 1
  /\ UNCHANGED << inputVars, pc, err, files, hostCreated, cellVars >>

\* lines 213-215: a face already registered raises; nothing catches it
GroupConflict ==
  /\ pc = "groups"
  /\ gi <= Len(groups)
  /\ groups[gi].type = "FACE"
  /\ LET grIds == groups[gi].ids
         nr == Len(grIds)
         reg == RegisterGroupFaces(grIds, bcFaces, bcFacesSorted, ofbcfid)
     IN /\ ~reg.ok
        /\ grpNames' = Append(grpNames, groups[gi].name)
        /\ grpStartFace' = StartsWith(nr)
        /\ grpNrFaces' = NrsWith(nr)
        /\ bcFaces' = reg.bcFaces
        /\ bcFacesSorted' = reg.bcFacesSorted
        /\ ofbcfid' = reg.ofbcfid
  /\ pc' = "error"
  /\ err' = "GroupConflict"
  /\ UNCHANGED << inputVars, files, log, hostCreated, gi, nrFaces, nrIntFaces,
                  nrBCfaces, nrExtFacesInGroups, cellVars >>

(***************************************************************************)
(* lines 238-274: the free faces no group registered go to a new group.    *)
(***************************************************************************)
\* lines 244-254, over the free faces in ascending id order
RECURSIVE RegisterDefault(_, _, _, _, _)
RegisterDefault(ids, lst, tbl, n, salomeIDs) ==
  IF ids = <<>>
  THEN [bcFaces |-> lst, bcFacesSorted |-> tbl, ofbcfid |-> n,
        salomeIDs |-> salomeIDs]
  ELSE LET fnodes == GetElemNodes(Head(ids))
           key == Key(fnodes)
       IN IF key \in DOMAIN tbl
          THEN RegisterDefault(Tail(ids), lst, tbl, n, salomeIDs)
          ELSE RegisterDefault(Tail(ids), Append(lst, fnodes),
                               (key :> n) @@ tbl, n + 1,
                               Append(salomeIDs, Head(ids)))

\* lines 255-259: defaultPatches, defaultPatches_1, defaultPatches_2, ...
RECURSIVE NewGrpName(_, _)
NewGrpName(names, k) ==
  IF <<"defaultPatches", k>> \in Range(names)
  THEN NewGrpName(names, k + 1)
  ELSE <<"defaultPatches", k>>

SynthesizeDefault ==
  /\ pc = "groups"
  /\ gi > Len(groups)
  /\ nrExtFacesInGroups < nrExtFaces
  /\ LET def == RegisterDefault(SetToSeq(extFaces), bcFaces, bcFacesSorted,
                                ofbcfid, <<>>)
         newGrpName == NewGrpName(grpNames, 0)
     IN /\ log' = log \cup DebugPrint({"Warning, some elements don't have a group"}, 1)
        /\ grpStartFace' = Append(grpStartFace, nrIntFaces + ofbcfid)
        /\ grpNrFaces' = Append(grpNrFaces, nrExtFaces - nrExtFacesInGroups)
        /\ bcFaces' = def.bcFaces
        /\ bcFacesSorted' = def.bcFacesSorted
        /\ ofbcfid' = def.ofbcfid
        /\ grpNames' = Append(grpNames, newGrpName)
        /\ hostCreated' = Append(hostCreated,
                                 [name |-> newGrpName, type |-> "FACE",
                                  ids |-> def.salomeIDs])
  /\ pc' = "alloc"
  /\ UNCHANGED << inputVars, err, files, gi, nrFaces, nrIntFaces, nrBCfaces,
                  nrExtFacesInGroups, cellVars >>

\* line 238 false: the declared groups account for every free face
GroupsCoverBoundary ==
  /\ pc = "groups"
  /\ gi > Len(groups)
  /\ ~(nrExtFacesInGroups < nrExtFaces)
  /\ pc' = "alloc"
  /\ UNCHANGED << inputVars, err, files, log, hostCreated, resolverVars,
                  cellVars >>

(***************************************************************************)
(* lines 277-291: owner and neighbour are allocated.                       *)
(***************************************************************************)
Allocate ==
  /\ pc = "alloc"
  /\ owner' = PyRepeat(-1, nrFaces)
  /\ neighbour' = PyRepeat(-1, nrIntFaces)
  /\ offid' = 0
  /\ ofvid' = 0
  /\ fi' = 0
  /\ log' = log \cup DebugPrint({"Finished processing boundary faces"}, 1)
                  \cup DebugPrint({"bcFaces", "bcFacesSorted", "owner",
                                   "neighbour"}, 2)
  /\ pc' = "cells"
  /\ UNCHANGED << inputVars, err, files, hostCreated, resolverVars,
                  faces, facesSorted >>

(***************************************************************************)
(* lines 292-351: the cell pass, one face of one cell per step.            *)
(***************************************************************************)
curCell == volumes[ofvid + 1]

curNodes == curCell.nodes

curFnodes == curCell.faces[fi + 1]

curKey == BufferKeys(Mesh, ofvid + 1)[fi + 1]

\* lines 349-351: the next face of the cell, or the first of the next cell
NextFace ==
  IF fi + 1 < BufferFL(Mesh, ofvid + 1)
  THEN fi' = fi + 1 /\ ofvid' = ofvid
  ELSE fi' = 0 /\ ofvid' = ofvid + 1

\* line 322 finds the owner slot filled and line 328 finds no reversed key:
\* the KeyError is caught at line 332 as if the face were in no table
FallsThrough ==
  /\ curKey \in DOMAIN bcFacesSorted
  /\ PyIdxOk(Len(owner), nrIntFaces + bcFacesSorted[curKey])
  /\ PyGet(owner, nrIntFaces + bcFacesSorted[curKey]) # -1
  /\ ReverseKey(curFnodes, FALSE) \notin DOMAIN bcFacesSorted

\* lines 304-312: the key is in the internal table
NeighbourFace ==
  /\ pc = "cells"
  /\ ofvid < Len(volumes)
  /\ curKey \in DOMAIN facesSorted
  /\ LET fidinof == facesSorted[curKey]
     IN IF PyIdxOk(Len(neighbour), fidinof)
        THEN /\ neighbour' = PySet(neighbour, fidinof, ofvid)
             /\ NextFace
             /\ UNCHANGED << pc, err >>
        ELSE /\ pc' = "error"
             /\ err' = "IndexError"
             /\ UNCHANGED << neighbour, fi, ofvid >>
  /\ UNCHANGED << inputVars, files, log, hostCreated, resolverVars, faces,
                  facesSorted, owner, offid >>

\* lines 316-331: the key is in the boundary table
BoundaryFace ==
  /\ pc = "cells"
  /\ ofvid < Len(volumes)
  /\ curKey \notin DOMAIN facesSorted
  /\ curKey \in DOMAIN bcFacesSorted
  /\ ~FallsThrough
  /\ LET bcind == bcFacesSorted[curKey]
         slot == nrIntFaces + bcind
         twin == bcFacesSorted[ReverseKey(curFnodes, FALSE)]
     IN IF ~PyIdxOk(Len(owner), slot)
        THEN /\ pc' = "error"
             /\ err' = "IndexError"
             /\ UNCHANGED << owner, bcFaces, fi, ofvid >>
        ELSE IF PyGet(owner, slot) = -1
        THEN /\ owner' = PySet(owner, slot, ofvid)
             /\ bcFaces' = PySet(bcFaces, bcind, curFnodes)
             /\ NextFace
             /\ UNCHANGED << pc, err >>
        ELSE /\ bcFaces' = PySet(bcFaces, twin, curFnodes)
             /\ IF PyIdxOk(Len(owner), nrIntFaces + twin)
                THEN /\ owner' = PySet(owner, nrIntFaces + twin, ofvid)
                     /\ NextFace
                     /\ UNCHANGED << pc, err >>
                ELSE /\ pc' = "error"
                     /\ err' = "IndexError"
                     /\ UNCHANGED << owner, fi, ofvid >>
  /\ UNCHANGED << inputVars, files, log, hostCreated, gi, nrFaces, nrIntFaces,
                  nrBCfaces, nrExtFacesInGroups, ofbcfid, grpStartFace,
                  grpNrFaces, grpNames, bcFacesSorted, faces, facesSorted,
                  neighbour, offid >>

\* lines 335-338: the node list recorded for a new internal face
StoredFace(xyz, vnodes, fnodes) ==
  IF verify /\ ~VerifyFaceOrder(xyz, vnodes, fnodes)
  THEN Reverse(fnodes)
  ELSE fnodes

\* lines 332-343: the key is in neither table
NewInternalFace ==
  /\ pc = "cells"
  /\ ofvid < Len(volumes)
  /\ curKey \notin DOMAIN facesSorted
  /\ curKey \notin DOMAIN bcFacesSorted \/ FallsThrough
  /\ faces' = Append(faces, StoredFace(Mesh.xyz, curNodes, curFnodes))
  /\ facesSorted' = (curKey :> offid) @@ facesSorted
  /\ IF PyIdxOk(Len(owner), offid)
     THEN /\ owner' = PySet(owner, offid, ofvid)
          /\ offid' = offid + 1
          /\ NextFace
          /\ UNCHANGED << pc, err >>
     ELSE /\ pc' = "error"
          /\ err' = "IndexError"
          /\ UNCHANGED << owner, offid, fi, ofvid >>
  /\ UNCHANGED << inputVars, files, log, hostCreated, resolverVars,
                  neighbour >>

\* line 354: every volume has been visited
FinishCells ==
  /\ pc = "cells"
  /\ ofvid = Len(volumes)
  /\ log' = log \cup DebugPrint({"Finished processing volumes."}, 1)
                  \cup DebugPrint({"faces", "facesSorted", "owner",
                                   "neighbour"}, 2)
  /\ pc' = "reorder"
  /\ UNCHANGED << inputVars, err, files, hostCreated, resolverVars,
                  cellVars >>

(***************************************************************************)
(* lines 376-399: the upper-triangular reorder pass.                       *)
(***************************************************************************)
\* list.sort(key=...): a stable insertion of x among the sorted indices
RECURSIVE InsertStable(_, _, _)
InsertStable(x, sorted, nb) ==
  IF sorted = <<>> THEN <<x>>
  ELSE IF PyGet(nb, x) < PyGet(nb, Head(sorted))
       THEN <<x>> \o sorted
       ELSE <<Head(sorted)>> \o InsertStable(x, Tail(sorted), nb)

RECURSIVE StableSort(_, _, _)
StableSort(inds, k, nb) ==
  IF k = 0 THEN <<>>
  ELSE InsertStable(inds[k], StableSort(inds, k - 1, nb), nb)

\* lines 389-394: Python 3 throws the result of sorted() away
SortedInds(sId, eId, nb, isPy3) ==
  LET inds == [k \in 1..(eId - sId + 1) |-> sId + k - 1]
  IN IF isPy3 THEN inds ELSE StableSort(inds, Len(inds), nb)

MapGetItemScattered(lst, inds) ==
  LET sId == CHOOSE x \in Range(inds) : \A y \in Range(inds) : x <= y
  IN [k \in 1..Len(inds) |->
        PyGet(lst, sId - 1 + CHOOSE p \in 1..Len(inds) : inds[p] = sId + k - 1)]

\* map(lst.__getitem__, inds)
MapGetItem(lst, inds) == [k \in 1..Len(inds) |-> PyGet(lst, inds[k])]

\* lst[sId:eId + 1] = vals, for a slice inside the list
SliceAssign(lst, sId, vals) ==
  [i \in 1..Len(lst) |->
     IF i - 1 >= sId /\ i - 1 < sId + Len(vals) THEN vals[i - sId] ELSE lst[i]]

\* lines 386-397, for the run of faces sId..eId of one owner
SortRun(sId, eId, nb, fcs, isPy3) ==
  LET inds == SortedInds(sId, eId, nb, isPy3)
      nb2 == SliceAssign(nb, sId, MapGetItem(nb, inds))
  IN IF \E k \in 1..Len(inds) : ~PyIdxOk(Len(nb), inds[k])
     THEN [ok |-> FALSE, neighbour |-> nb, faces |-> fcs]
     ELSE IF \E k \in 1..Len(inds) : ~PyIdxOk(Len(fcs), inds[k])
     THEN [ok |-> FALSE, neighbour |-> nb2, faces |-> fcs]
     ELSE [ok |-> TRUE, neighbour |-> nb2,
           faces |-> SliceAssign(fcs, sId, MapGetItem(fcs, inds))]

\* lines 379-399, from faceId on, with ownedfaces faces counted in the run
RECURSIVE ReorderFrom(_, _, _, _, _, _, _)
ReorderFrom(faceId, ownedfaces, own, nb, fcs, nInt, isPy3) ==
  IF faceId >= nInt
  THEN [ok |-> TRUE, neighbour |-> nb, faces |-> fcs]
  ELSE IF ~PyIdxOk(Len(own), faceId) \/ ~PyIdxOk(Len(own), faceId + 1)
  THEN [ok |-> FALSE, neighbour |-> nb, faces |-> fcs]
  ELSE IF PyGet(own, faceId) = PyGet(own, faceId + 1)
  THEN ReorderFrom(faceId + 1, ownedfaces + 1, own, nb, fcs, nInt, isPy3)
  ELSE IF ownedfaces > 1
  THEN LET r == SortRun(faceId - ownedfaces + 1, faceId, nb, fcs, isPy3)
       IN IF r.ok
          THEN ReorderFrom(faceId + 1, 1, own, r.neighbour, r.faces, nInt, isPy3)
          ELSE r
  ELSE ReorderFrom(faceId + 1, 1, own, nb, fcs, nInt, isPy3)

ReorderPass(own, nb, fcs, nInt, isPy3) ==
  ReorderFrom(0, 1, own, nb, fcs, nInt, isPy3)

Reorder ==
  /\ pc = "reorder"
  /\ LET r == ReorderPass(owner, neighbour, faces, nrIntFaces, py3)
     IN /\ neighbour' = r.neighbour
        /\ faces' = r.faces
        /\ log' = log \cup DebugPrint({"Sorting faces in upper triangular order"}, 1)
        /\ IF r.ok
           THEN pc' = "points" /\ UNCHANGED err
           ELSE pc' = "error" /\ err' = "IndexError"
  /\ UNCHANGED << inputVars, files, hostCreated, resolverVars, facesSorted,
                  owner, offid, ofvid, fi >>

(***************************************************************************)
(* lines 402-513: the files are written.  A file's data is the list of     *)
(* what was written to it: counts, notes and entry lists.                  *)
(***************************************************************************)
nrPoints == Len(Mesh.xyz)

nrCells == ofvid

Written(f, data) == [files EXCEPT ![f] = [st |-> "closed", data |-> data]]

\* lines 421-423: salome counts from one, OpenFOAM from zero
ZeroBased(node) == [k \in 1..Len(node) |-> node[k] - 1]

WritePoints ==
  /\ pc = "points"
  /\ files' = Written("points", <<nrPoints, Mesh.xyz>>)
  /\ log' = log \cup DebugPrint({"Writing the file points"}, 1)
  /\ pc' = "faces"
  /\ UNCHANGED << inputVars, err, hostCreated, resolverVars, cellVars >>

WriteFaces ==
  /\ pc = "faces"
  /\ files' = Written("faces",
                      <<nrFaces,
                        [i \in 1..Len(faces) |-> ZeroBased(faces[i])]
                          \o [i \in 1..Len(bcFaces) |-> ZeroBased(bcFaces[i])]>>)
  /\ log' = log \cup DebugPrint({"Writing the file faces"}, 1)
  /\ pc' = "owner"
  /\ UNCHANGED << inputVars, err, hostCreated, resolverVars, cellVars >>

\* the note of __writeHeader__
Note == <<nrPoints, nrCells, nrFaces, nrIntFaces>>

WriteOwner ==
  /\ pc = "owner"
  /\ files' = Written("owner", <<Note, Len(owner), owner>>)
  /\ log' = log \cup DebugPrint({"Writing the file owner"}, 1)
  /\ pc' = "neighbour"
  /\ UNCHANGED << inputVars, err, hostCreated, resolverVars, cellVars >>

WriteNeighbour ==
  /\ pc = "neighbour"
  /\ files' = Written("neighbour", <<Note, Len(neighbour), neighbour>>)
  /\ log' = log \cup DebugPrint({"Writing the file neighbour"}, 1)
  /\ pc' = "boundary"
  /\ UNCHANGED << inputVars, err, hostCreated, resolverVars, cellVars >>

\* lines 460-466: the patch of grpNames[ind]; a list too short for ind raises
\* after the fields before it are written
PatchEntry(i) ==
  [ name |-> grpNames[i],
    type |-> IF i <= Len(bound) THEN bound[i] ELSE "",
    complete |-> i <= Len(bound) /\ i <= Len(grpNrFaces)
                   /\ i <= Len(grpStartFace),
    nFaces |-> IF i <= Len(bound) /\ i <= Len(grpNrFaces)
               THEN grpNrFaces[i] ELSE 0,
    startFace |-> IF i <= Len(bound) /\ i <= Len(grpNrFaces)
                     /\ i <= Len(grpStartFace)
                  THEN grpStartFace[i] ELSE 0 ]

\* the entries written: all of them, or up to the first that raises
PatchEntries ==
  LET bad == { i \in 1..Len(grpNames) : ~PatchEntry(i).complete }
      last == IF bad = {} THEN Len(grpNames)
              ELSE CHOOSE i \in bad : \A j \in bad : i <= j
  IN [i \in 1..last |-> PatchEntry(i)]

WriteBoundary ==
  /\ pc = "boundary"
  /\ IF \A i \in 1..Len(grpNames) : PatchEntry(i).complete
     THEN /\ files' = Written("boundary", <<Len(grpStartFace), PatchEntries>>)
          /\ pc' = "zones"
          /\ UNCHANGED err
     ELSE /\ files' = [files EXCEPT !["boundary"].data =
                                      <<Len(grpStartFace), PatchEntries>>]
          /\ pc' = "error"
          /\ err' = "IndexError"
  /\ log' = log \cup DebugPrint({"Writing the file boundary"}, 1)
  /\ UNCHANGED << inputVars, hostCreated, resolverVars, cellVars >>

\* lines 475-478, over the groups of the mesh as they are now
hostGroups == groups \o hostCreated

cellZoneGroups == SelectSeq(hostGroups, LAMBDA g : g.type = "VOLUME")

\* line 488: scToOFc
ScToOFc(csId) == (CHOOSE c \in 1..Len(volumes) : volumes[c].v = csId) - 1

WriteCellZones ==
  /\ pc = "zones"
  /\ Len(cellZoneGroups) > 0
  /\ files' = Written("cellZones",
                      <<Len(cellZoneGroups),
                        [z \in 1..Len(cellZoneGroups) |->
                           [name |-> cellZoneGroups[z].name,
                            cellLabels |->
                              [k \in 1..Len(cellZoneGroups[z].ids) |->
                                 ScToOFc(cellZoneGroups[z].ids[k])]]]>>)
  /\ log' = log \cup DebugPrint({"Writing file cellZones"}, 1)
                  \cup DebugPrint({"Finished writing", "Converted mesh in",
                                 "Wrote mesh in", "Total time"}, 1)
  /\ pc' = "done"
  /\ UNCHANGED << inputVars, err, hostCreated, resolverVars, cellVars >>

NoCellZones ==
  /\ pc = "zones"
  /\ Len(cellZoneGroups) = 0
  /\ log' = log \cup DebugPrint({"Finished writing", "Converted mesh in",
                                 "Wrote mesh in", "Total time"}, 1)
  /\ pc' = "done"
  /\ UNCHANGED << inputVars, err, files, hostCreated, resolverVars,
                  cellVars >>

Next ==
  \/ OpenFiles
  \/ OpenFails
  \/ CountFaces
  \/ SkipGroup
  \/ ResolveGroup
  \/ GroupConflict
  \/ SynthesizeDefault
  \/ GroupsCoverBoundary
  \/ Allocate
  \/ NeighbourFace
  \/ BoundaryFace
  \/ NewInternalFace
  \/ FinishCells
  \/ Reorder
  \/ WritePoints
  \/ WriteFaces
  \/ WriteOwner
  \/ WriteNeighbour
  \/ WriteBoundary
  \/ WriteCellZones
  \/ NoCellZones

Spec == Init /\ [][Next]_vars

(***************************************************************************)
(* Properties.                                                             *)
(***************************************************************************)
\* the boundary-group resolver has run to its end
ResolverDone == pc \notin {"open", "aborted", "count", "groups"} /\ err # "GroupConflict"

\* the reorder pass has run to its end
ReorderDone == pc \in {"points", "faces", "owner", "neighbour", "boundary", "zones", "done"}

\* the cell pass has run to its end
CellsDone == pc = "reorder" \/ ReorderDone

declaredFaceGroups == SelectSeq(groups, LAMBDA g : g.type = "FACE")

nonEmptyFaceGroups == SelectSeq(declaredFaceGroups, LAMBDA g : g.ids # <<>>)

IsBaffle(g) == IsGroupBaffle(g.ids, extFaces)

\* C1: when the resolver is done, the ranges [startFace, startFace + nFaces)
\* of the patches, in declaration order with the synthesized group last, are
\* non-empty, each starts where the one before ends, the first starts at
\* nrIntFaces and the last ends at nrFaces (no range at all only when
\* nrIntFaces = nrFaces); the declared groups that have members hold the first
\* ranges, in their order, with their member count (twice it for a baffle).
C1_RangesTileBoundary ==
  ResolverDone =>
    LET n == Len(grpStartFace)
        d == Len(nonEmptyFaceGroups)
    IN /\ Len(grpNrFaces) = n
       /\ n = d + Len(hostCreated)
       /\ \A i \in 1..d :
            grpNrFaces[i] = (IF IsBaffle(nonEmptyFaceGroups[i]) THEN 2 ELSE 1)
                              * Len(nonEmptyFaceGroups[i].ids)
       /\ \A i \in 1..n : grpNrFaces[i] > 0
       /\ n = 0 => nrIntFaces = nrFaces
       /\ n > 0 => /\ grpStartFace[1] = nrIntFaces
                   /\ grpStartFace[n] + grpNrFaces[n] = nrFaces
       /\ \A i \in 1..(n - 1) :
            grpStartFace[i + 1] = grpStartFace[i] + grpNrFaces[i]

\* a resolver run over an empty group and a baffle, with a synthesized group
C1_Witness ==
  /\ pc = "alloc"
  /\ hostCreated # <<>>
  /\ \E i \in 1..Len(declaredFaceGroups) : declaredFaceGroups[i].ids = <<>>
  /\ \E i \in 1..Len(declaredFaceGroups) : IsBaffle(declaredFaceGroups[i])
  /\ Len(grpStartFace) >= 2

\* C2: after the reorder pass, internal faces of one owner are in ascending
\* order of neighbour: for i < j < nrIntFaces with owner[i] = owner[j],
\* neighbour[i] <= neighbour[j].
C2_UpperTriangular ==
  ReorderDone =>
    \A i \in 0..(nrIntFaces - 1), j \in 0..(nrIntFaces - 1) :
      (i < j /\ PyGet(owner, i) = PyGet(owner, j))
        => PyGet(neighbour, i) <= PyGet(neighbour, j)

\* the five output files and cellZones, none created
NoFileTouched == \A f \in AllFiles : files[f] = [st |-> "absent", data |-> <<>>]

\* nothing written to any file: the five files created empty by line 140-144
NoFileWritten ==
  /\ \A f \in AllFiles : files[f].data = <<>>
  /\ \A f \in Range(FileNames) : files[f].st = "open"
  /\ files["cellZones"].st = "absent"

\* some face is a member of two declared face groups that are not baffles
SharedFace ==
  \E i, j \in 1..Len(declaredFaceGroups) :
    /\ i < j
    /\ ~IsBaffle(declaredFaceGroups[i]) /\ ~IsBaffle(declaredFaceGroups[j])
    /\ \E a \in Range(declaredFaceGroups[i].ids),
          b \in Range(declaredFaceGroups[j].ids) :
         Key(GetElemNodes(a)) = Key(GetElemNodes(b))

ConflictRaised == pc = "error" /\ err = "GroupConflict"

\* the cell pass, the reorder pass and the writes have not started
NoLaterPhase ==
  /\ owner = <<>> /\ neighbour = <<>> /\ faces = <<>> /\ facesSorted = <<>>
  /\ offid = 0 /\ ofvid = 0 /\ fi = 0
  /\ hostCreated = <<>>

\* C3 as stated: a face in two declared non-baffle groups makes the resolver
\* raise the group-conflict error; when it is raised no later phase has run
\* and no output file has been created, truncated or written.
C3_ConflictTouchesNoFile ==
  /\ SharedFace => (pc \in {"open", "aborted", "count", "groups"} \/ ConflictRaised)
  /\ ConflictRaised => (NoLaterPhase /\ NoFileTouched)

\* C3 amended: a face in two declared non-baffle groups makes the resolver
\* raise the group-conflict error; when it is raised no later phase has run
\* and nothing has been written to any output file: the five files exist,
\* opened (created or truncated) before the resolver started, and are empty.
C3_ConflictWritesNothing ==
  /\ SharedFace => (pc \in {"open", "aborted", "count", "groups"} \/ ConflictRaised)
  /\ ConflictRaised => (NoLaterPhase /\ NoFileWritten)

\* the error raised for a face shared by two non-baffle groups
C3_Witness == ConflictRaised /\ SharedFace

\* owner and neighbour have been allocated
Allocated == ResolverDone /\ pc # "alloc"

RECURSIVE BaffleMembers(_)
BaffleMembers(k) ==
  IF k = 0 THEN 0
  ELSE (IF IsBaffle(declaredFaceGroups[k]) THEN Len(declaredFaceGroups[k].ids) ELSE 0)
         + BaffleMembers(k - 1)

\* C4: the arrays allocated have len(owner) = nrFaces and len(neighbour) =
\* nrIntFaces, where 2 * nrFaces = sum of the cells' face counts + boundary
\* faces, and boundary faces = nrFaces - nrIntFaces = free faces + 2 per
\* member face of a baffle group.
C4_ArrayLengths ==
  Allocated =>
    /\ Len(owner) = nrFaces
    /\ Len(neighbour) = nrIntFaces
    /\ 2 * nrFaces = SumFL(Mesh, Len(volumes)) + (nrFaces - nrIntFaces)
    /\ nrFaces - nrIntFaces
         = nrExtFaces + 2 * BaffleMembers(Len(declaredFaceGroups))

\* the free faces whose key no declared face group registered
Unclaimed ==
  { f \in extFaces :
      \A i \in 1..Len(declaredFaceGroups) :
        \A a \in Range(declaredFaceGroups[i].ids) :
          Key(GetElemNodes(a)) # Key(GetElemNodes(f)) }

\* the patches (positions in grpStartFace) whose range holds boundary index b
PatchesOf(b) ==
  { i \in 1..Len(grpStartFace) :
      /\ grpStartFace[i] <= nrIntFaces + b
      /\ nrIntFaces + b < grpStartFace[i] + grpNrFaces[i] }

\* C5: after the resolver every free face is in exactly one patch; when the
\* declared groups leave free faces unclaimed, one group defaultPatches (or
\* defaultPatches_k, the first k whose name no declared face group has) is
\* appended last, its nFaces is the number of entries registered for it, and
\* these are exactly the unclaimed free faces; when they leave none, no group
\* is synthesized.
C5_DefaultPatchExact ==
  ResolverDone =>
    /\ \A f \in extFaces :
         /\ Key(GetElemNodes(f)) \in DOMAIN bcFacesSorted
         /\ Cardinality(PatchesOf(bcFacesSorted[Key(GetElemNodes(f))])) = 1
    /\ Unclaimed = {} => hostCreated = <<>>
    /\ Unclaimed # {} =>
         /\ Len(hostCreated) = 1
         /\ Range(hostCreated[1].ids) = Unclaimed
         /\ grpNames[Len(grpNames)] = hostCreated[1].name
         /\ hostCreated[1].name[1] = "defaultPatches"
         /\ \A i \in 1..Len(declaredFaceGroups) :
              declaredFaceGroups[i].name # hostCreated[1].name
         /\ \A k \in 0..(hostCreated[1].name[2] - 1) :
              \E i \in 1..Len(declaredFaceGroups) :
                declaredFaceGroups[i].name = <<"defaultPatches", k>>
         /\ grpNrFaces[Len(grpNrFaces)] = Len(hostCreated[1].ids)
         /\ \A f \in Unclaimed :
              PatchesOf(bcFacesSorted[Key(GetElemNodes(f))]) = {Len(grpStartFace)}

\* b is a's node order mirrored: a rotation of a reversed
Mirrored(a, b) ==
  /\ Len(a) = Len(b)
  /\ \E r \in 0..(Len(a) - 1) :
       \A k \in 1..Len(a) : b[k] = Reverse(a)[((k - 1 + r) % Len(a)) + 1]

\* position in grpNrFaces of the declared face group at position i
RECURSIVE PatchPos(_)
PatchPos(i) ==
  IF i = 0 THEN 0
  ELSE PatchPos(i - 1) + (IF declaredFaceGroups[i].ids # <<>> THEN 1 ELSE 0)

\* C6: a group with a member that is no free face is a baffle: with n member
\* faces its nFaces is 2n, 2n distinct boundary entries are registered (one
\* under each member's key, one under its reversed key), after the cell pass
\* each of them has an owner, and the two entries of a member hold mirrored
\* node orders; any other group with n members has nFaces n.
C6_BaffleEntriesOwned ==
  CellsDone =>
    \A i \in 1..Len(declaredFaceGroups) :
      LET g == declaredFaceGroups[i]
          n == Len(g.ids)
      IN /\ (n > 0 /\ ~IsBaffle(g)) => grpNrFaces[PatchPos(i)] = n
         /\ IsBaffle(g) =>
              /\ grpNrFaces[PatchPos(i)] = 2 * n
              /\ Cardinality({ bcFacesSorted[Key(GetElemNodes(g.ids[k]))] : k \in 1..n }
                   \cup { bcFacesSorted[ReverseKey(GetElemNodes(g.ids[k]), FALSE)] : k \in 1..n })
                   = 2 * n
              /\ \A k \in 1..n :
                   LET asc == bcFacesSorted[Key(GetElemNodes(g.ids[k]))]
                       rev == bcFacesSorted[ReverseKey(GetElemNodes(g.ids[k]), FALSE)]
                   IN /\ PyGet(owner, nrIntFaces + asc) # -1
                      /\ PyGet(owner, nrIntFaces + rev) # -1
                      /\ Mirrored(PyGet(bcFaces, asc), PyGet(bcFaces, rev))

\* C7: no face key is in both the internal-face table and the boundary table.
C7_TablesDisjoint == DOMAIN facesSorted \cap DOMAIN bcFacesSorted = {}

\* a step of the cell pass that records a new internal face
RecordsFace == pc = "cells" /\ Len(faces') = Len(faces) + 1

\* reversing the node list turns the first-vertex normal into its opposite
\* (so for every triangle)
ReversalFlipsNormal(xyz, fnodes) ==
  CalcNormal(xyz, Reverse(fnodes)) = Scale(-1, CalcNormal(xyz, fnodes))

SentinelWarning == "Warning, owner or neighbour slot left at -1"

\* C9: a slot of owner or neighbour still -1 when the cell pass ends is
\* reported by a warning before the files are written; the owner and
\* neighbour files never hold -1 without that diagnostic.
C9_SentinelWarned ==
  /\ (ReorderDone /\ -1 \in (Range(owner) \cup Range(neighbour)))
       => SentinelWarning \in log
  /\ \A f \in {"owner", "neighbour"} :
       (files[f].data # <<>> /\ -1 \in Range(files[f].data[3]))
         => SentinelWarning \in log

(***************************************************************************)
(* The reorder pass alone, run twice on arrays drawn from bounded sets in  *)
(* which owner is non-decreasing over the internal faces.                  *)
(***************************************************************************)
InitReorder ==
  /\ meshId = 1
  /\ groups = <<>>
  /\ bound = <<>>
  /\ py3 \in BOOLEAN
  /\ pc = "reorder_in"
  /\ err = "none"
  /\ files = ClosedFiles
  /\ log = {}
  /\ hostCreated = <<>>
  /\ gi = 1
  /\ nrIntFaces \in 0..MaxLen
  /\ nrFaces = nrIntFaces + 1
  /\ nrBCfaces = 1
  /\ nrExtFacesInGroups = 0 /\ ofbcfid = 0
  /\ grpStartFace = <<>> /\ grpNrFaces = <<>> /\ grpNames = <<>>
  /\ bcFaces = <<>> /\ bcFacesSorted = <<>>
  /\ owner \in [1..nrFaces -> 0..MaxCell]
  /\ \A i \in 1..(nrIntFaces - 1) : owner[i] <= owner[i + 1]
  /\ neighbour \in [1..nrIntFaces -> 0..MaxCell]
  /\ faces = [i \in 1..nrIntFaces |-> <<i>>]
  /\ facesSorted = <<>>
  /\ offid = 0 /\ ofvid = 0 /\ fi = 0

ReorderApplied(from, to) ==
  /\ pc = from
  /\ LET r == ReorderPass(owner, neighbour, faces, nrIntFaces, py3)
     IN /\ neighbour' = r.neighbour
        /\ faces' = r.faces
        /\ IF r.ok
           THEN pc' = to /\ UNCHANGED err
           ELSE pc' = "error" /\ err' = "IndexError"
  /\ UNCHANGED << inputVars, files, log, hostCreated, resolverVars,
                  facesSorted, owner, offid, ofvid, fi >>

ReorderFirst == ReorderApplied("reorder_in", "reorder_once")

ReorderSecond == ReorderApplied("reorder_once", "reorder_twice")

NextReorder == ReorderFirst \/ ReorderSecond

SpecReorder == InitReorder /\ [][NextReorder]_vars

\* C10: a second run of the reorder pass on the arrays a first run produced
\* leaves owner, neighbour and the internal-face list unchanged.
C10_ReorderIdempotent ==
  [][pc = "reorder_once" =>
       (pc' = "reorder_twice" /\ owner' = owner /\ neighbour' = neighbour
          /\ faces' = faces)]_vars

\* two runs done, the first of which moved faces
C10_Witness ==
  /\ pc = "reorder_twice"
  /\ nrIntFaces = MaxLen
  /\ faces # [i \in 1..nrIntFaces |-> <<i>>]

\* the cells (1-based positions in volumes) that list a face of key k
CellsWith(k) ==
  { c \in 1..Len(volumes) : \E j \in 1..BufferFL(Mesh, c) : BufferKeys(Mesh, c)[j] = k }

\* the face keys of the mesh
AllKeys == UNION { Range(BufferKeys(Mesh, c)) : c \in 1..Len(volumes) }

\* the cell pass has gone past the face of key k of cell c
Visited(c, k) ==
  \/ ofvid > c - 1
  \/ /\ ofvid = c - 1
     /\ \E j \in 1..BufferFL(Mesh, c) : BufferKeys(Mesh, c)[j] = k /\ fi >= j

\* the keys in exactly two cells that the boundary table does not hold
InternalPairKeys ==
  { k \in AllKeys : Cardinality(CellsWith(k)) = 2 /\ k \notin DOMAIN bcFacesSorted }

\* the cell pass stopped on an index out of range: no file is written yet
CellPassAborted == pc = "error" /\ err = "IndexError" /\ files["points"].st = "open"

\* C11: in the cell pass a key that is in two cells and not in the boundary
\* table gets one internal face entry: none before the first of the two cells
\* has visited it, from then on an entry whose owner is that cell's position,
\* and once the second cell has visited it the entry's neighbour is that
\* cell's position (the pass does not stop before); when the pass has ended,
\* owner[f] < neighbour[f] for every f < nrIntFaces and owner is
\* non-decreasing over [0, nrIntFaces).
C11_InternalFacePairs ==
  /\ ~CellPassAborted
  /\ pc \in {"cells", "reorder"} =>
       \A k \in InternalPairKeys :
         LET a == CHOOSE c \in CellsWith(k) : \A d \in CellsWith(k) : c <= d
             b == CHOOSE c \in CellsWith(k) : \A d \in CellsWith(k) : c >= d
         IN /\ ~Visited(a, k) => k \notin DOMAIN facesSorted
            /\ Visited(a, k) =>
                 /\ k \in DOMAIN facesSorted
                 /\ facesSorted[k] < Len(owner)
                 /\ owner[facesSorted[k] + 1] = a - 1
            /\ (Visited(a, k) /\ ~Visited(b, k)) =>
                 /\ facesSorted[k] < Len(neighbour)
                 /\ neighbour[facesSorted[k] + 1] = -1
            /\ Visited(b, k) =>
                 /\ facesSorted[k] < Len(neighbour)
                 /\ neighbour[facesSorted[k] + 1] = b - 1
  /\ pc = "reorder" =>
       /\ nrIntFaces <= Len(neighbour) /\ nrIntFaces <= Len(owner)
       /\ \A f \in 1..nrIntFaces : owner[f] < neighbour[f]
       /\ \A f \in 1..(nrIntFaces - 1) : owner[f] <= owner[f + 1]

\* the cell pass is at a face whose key is in the boundary table with its
\* owner slot filled
AtFilledBoundarySlot ==
  /\ pc = "cells"
  /\ ofvid < Len(volumes)
  /\ curKey \in DOMAIN bcFacesSorted
  /\ PyIdxOk(Len(owner), nrIntFaces + bcFacesSorted[curKey])
  /\ PyGet(owner, nrIntFaces + bcFacesSorted[curKey]) # -1

\* the member faces of declared baffle groups that two cells share
SharedBaffleMembers ==
  { m \in UNION { Range(declaredFaceGroups[i].ids) :
                    i \in { j \in 1..Len(declaredFaceGroups) :
                              IsBaffle(declaredFaceGroups[j]) } } :
      Cardinality(CellsWith(Key(GetElemNodes(m)))) = 2 }

\* the owner slots of the two boundary entries of member face m are set to
\* its two cells, the first in host order under the ascending key
TwinsOwned(m) ==
  LET k == Key(GetElemNodes(m))
      r == ReverseKey(GetElemNodes(m), FALSE)
      a == CHOOSE c \in CellsWith(k) : \A d \in CellsWith(k) : c <= d
      b == CHOOSE c \in CellsWith(k) : \A d \in CellsWith(k) : c >= d
  IN /\ k \in DOMAIN bcFacesSorted /\ r \in DOMAIN bcFacesSorted
     /\ PyIdxOk(Len(owner), nrIntFaces + bcFacesSorted[k])
     /\ PyIdxOk(Len(owner), nrIntFaces + bcFacesSorted[r])
     /\ PyIdx(Len(owner), nrIntFaces + bcFacesSorted[k])
          # PyIdx(Len(owner), nrIntFaces + bcFacesSorted[r])
     /\ PyGet(owner, nrIntFaces + bcFacesSorted[k]) = a - 1
     /\ PyGet(owner, nrIntFaces + bcFacesSorted[r]) = b - 1

\* what a step does at a filled boundary slot, and at the end of the pass
TwinSlotStep ==
  /\ AtFilledBoundarySlot =>
       LET slot == nrIntFaces + bcFacesSorted[curKey]
           rev == ReverseKey(curFnodes, FALSE)
       IN /\ rev \in DOMAIN bcFacesSorted
          /\ PyIdxOk(Len(owner), nrIntFaces + bcFacesSorted[rev])
          /\ PyIdx(Len(owner), nrIntFaces + bcFacesSorted[rev])
               # PyIdx(Len(owner), slot)
          /\ owner' = PySet(owner, nrIntFaces + bcFacesSorted[rev], ofvid)
  /\ (pc = "cells" /\ pc' # "cells") =>
       /\ pc' = "reorder"
       /\ \A m \in SharedBaffleMembers : TwinsOwned(m)

\* C12: a cell-pass step at a face whose key is in the boundary table and
\* whose owner slot is filled writes the cell to the slot registered under
\* the reversed key, a slot other than the filled one, and changes no other
\* owner slot; and when the pass has ended, the two boundary entries of a
\* baffle member face that two cells share are owned by these two cells, the
\* first-visiting cell owning the entry under the ascending key.
C12_TwinSlotFilled == [][TwinSlotStep]_vars

\* the boundary file holds a patch count (and patch entries)
BoundaryStarted == files["boundary"].data # <<>>

\* the boundary faces registered by the face group at position j of the
\* groups of the mesh
NFacesOf(j) ==
  (IF hostGroups[j].ids # <<>> /\ j <= Len(groups) /\ IsBaffle(hostGroups[j])
   THEN 2 ELSE 1) * Len(hostGroups[j].ids)

RECURSIVE SumNFaces(_, _)
SumNFaces(entries, n) ==
  IF n = 0 THEN 0 ELSE entries[n].nFaces + SumNFaces(entries, n - 1)

\* C13: once the boundary table is begun, it is written whole: the patch
\* count it declares is the number of its entries, and each entry is the
\* entry of one face group of the mesh: it has that group's name, the label
\* selected in the dialog for that group (a group that was in the dialog),
\* that group's face count (twice the members for a baffle), and the start
\* face that follows the entries before it, from nrIntFaces on.
C13_BoundaryEntries ==
  BoundaryStarted =>
    LET count == files["boundary"].data[1]
        entries == files["boundary"].data[2]
    IN /\ files["boundary"].st = "closed"
       /\ count = Len(entries)
       /\ \A i \in 1..Len(entries) :
            /\ entries[i].complete
            /\ \E j \in 1..Len(hostGroups) :
                 /\ hostGroups[j].type = "FACE"
                 /\ hostGroups[j].name = entries[i].name
                 /\ j <= Len(groups) => entries[i].type = bound[j]
                 /\ entries[i].nFaces = NFacesOf(j)
                 /\ entries[i].startFace = nrIntFaces + SumNFaces(entries, i - 1)

\* every key occurs in at most two cells, and the free faces are the faces
\* that occur in one cell
WellFormedMesh ==
  /\ \A k \in AllKeys : Cardinality(CellsWith(k)) <= 2
  /\ { Key(GetElemNodes(f)) : f \in extFaces }
       = { k \in AllKeys : Cardinality(CellsWith(k)) = 1 }

\* C14: on a well-formed mesh the cell pass raises no IndexError and uses no
\* index out of its range: the internal face indices assigned are below
\* nrIntFaces, the boundary indices are below nrFaces - nrIntFaces and their
\* owner slots are at nrIntFaces or after; when the pass has ended, nrIntFaces
\* internal faces and nrFaces - nrIntFaces boundary entries are recorded, and
\* the faces file, once written, holds the nrFaces entries it declares.
C14_IndicesInRange ==
  WellFormedMesh =>
    /\ ~CellPassAborted
    /\ pc \in {"cells", "reorder"} =>
         /\ offid <= nrIntFaces
         /\ \A k \in DOMAIN facesSorted :
              0 <= facesSorted[k] /\ facesSorted[k] < nrIntFaces
         /\ \A k \in DOMAIN bcFacesSorted :
              0 <= bcFacesSorted[k] /\ bcFacesSorted[k] < nrFaces - nrIntFaces
         /\ nrIntFaces >= 0
    /\ CellsDone =>
         /\ Len(faces) = nrIntFaces
         /\ Len(bcFaces) = nrFaces - nrIntFaces
    /\ files["faces"].data # <<>> =>
         Len(files["faces"].data[2]) = files["faces"].data[1]

====
